---- MODULE Spec2Model ----
(***************************************************************************)
(* GitHub Repository Summary Bot (repo_summary_bot.py): the change         *)
(* detection of GitHubRepoBot.check_repo_for_changes against the stored    *)
(* watermark, the two SQLite tables repo_states and summaries, the batch   *)
(* loop check_all_repos and the listing get_recent_summaries.              *)
(*                                                                         *)
(* Time is the count of the bot's clock readings: every datetime.utcnow()  *)
(* returns a value larger than the one before (a request or a committed    *)
(* store write lies between any two).  The hosting service stamps a commit *)
(* or a pull-request update with the bot's last reading: it happened after *)
(* reading `now` and before the bot's next reading.  A text                *)
(* timestamp is a record [t, suffix]: datetime.utcnow().isoformat() writes *)
(* no zone suffix, the hosting API writes a trailing "Z".                  *)
(* An Optional value is a sequence: <<>> is None, <<x>> is x.              *)
(***************************************************************************)
EXTENDS Integers, Sequences, FiniteSets, TLC

\* Bounds of the model: the check_repo_for_changes calls of a run (a batch
\* list is no longer, and a listing limit no larger, than that), and the
\* commits and pull requests that appear upstream.
MaxChecks == 2
MaxUpstream == 2

\* Program constants.
LOOKBACK_DAYS == 7
PER_PAGE == 10
MAX_COMMIT_LINES == 10
MAX_PULL_LINES == 5

\* No look-back window is waited out once the clock has passed MaxChecks.
MaxTime == LOOKBACK_DAYS + MaxChecks

\* The repositories of the sample configuration.
Repos == {"octocat/Hello-World", "microsoft/vscode"}

VARIABLES
    now,            \* the bot's last clock reading
    nchecks,        \* check_repo_for_changes calls so far
    up_commits,     \* hosting service: repo -> commits, oldest first
    up_pulls,       \* hosting service: repo -> pull requests, by number
    repo_states,    \* table repo_states: repo_name -> row (rows that exist)
    summaries,      \* table summaries, in rowid order
    sqlite_sequence,\* AUTOINCREMENT counter of table summaries
    hist,           \* the last two check_repo_for_changes calls, oldest first
    batch,          \* position of check_all_repos
    shown,          \* the last get_recent_summaries call and what it returned
    track           \* repo -> the since of its first fetch, and the commits
                    \* of the fetched lists that a SummaryRecord counted

vars == <<now, nchecks, up_commits, up_pulls, repo_states, summaries, sqlite_sequence,
          hist, batch, shown, track>>

----------------------------------------------------------------------------
\* Sequence helpers.

Take(s, n) == SubSeq(s, 1, IF n < Len(s) THEN n ELSE Len(s))

Reverse(s) == [i \in 1..Len(s) |-> s[Len(s) + 1 - i]]

Last2(s) == IF Len(s) <= 2 THEN s ELSE SubSeq(s, Len(s) - 1, Len(s))

----------------------------------------------------------------------------
\* Timestamps.

\* datetime.utcnow().isoformat(): naive, no zone suffix.
isoformat(t) == [t |-> t, suffix |-> ""]

\* The hosting API's timestamps end in "Z".
github_time(t) == [t |-> t, suffix |-> "Z"]

\* datetime.fromisoformat(s.replace('Z', '+00:00')): aware exactly when the
\* text carried a zone.
fromisoformat(s) == [t |-> s.t, aware |-> s.suffix = "Z"]

\* a > b on datetimes: comparing a naive with an aware datetime raises TypeError.
datetime_gt(a, b) ==
    IF a.aware = b.aware
    THEN [exc |-> "none", value |-> a.t > b.t]
    ELSE [exc |-> "TypeError", value |-> FALSE]

----------------------------------------------------------------------------
\* The hosting API.

ShaOf(r, n) == <<r, n>>

get_repo_commits_NoSince(r, since) == Reverse(up_commits[r])

\* GET /repos/{repo}/commits?since=...: the commits dated at or after since,
\* newest first.
get_repo_commits(r, since) ==
    Reverse(SelectSeq(up_commits[r], LAMBDA c : c.date >= since.t))

RECURSIVE SortUpdatedDesc(_)
SortUpdatedDesc(S) ==
    IF S = {} THEN <<>>
    ELSE LET top == CHOOSE p \in S : \A q \in S : q.updated_at.t <= p.updated_at.t
         IN <<top>> \o SortUpdatedDesc(S \ {top})

\* GET /repos/{repo}/pulls?state=all&sort=updated&direction=desc&per_page=10
get_repo_pulls(r) ==
    Take(SortUpdatedDesc({up_pulls[r][i] : i \in 1..Len(up_pulls[r])}), PER_PAGE)

----------------------------------------------------------------------------
\* The store.

get_last_check_time(r) ==
    IF r \in DOMAIN repo_states THEN <<repo_states[r].last_check_timestamp>> ELSE <<>>

\* INSERT OR REPLACE INTO repo_states
Upsert(states, r, sha, t) ==
    [x \in DOMAIN states \cup {r} |->
        IF x = r THEN [last_commit_sha |-> sha, last_check_timestamp |-> isoformat(t)]
        ELSE states[x]]

update_repo_state(states, r, last_commit_sha, t) == Upsert(states, r, last_commit_sha, t)

\* COALESCE((SELECT last_commit_sha FROM repo_states WHERE repo_name = ?), '')
CoalesceSha(states, r) ==
    IF r \in DOMAIN states THEN states[r].last_commit_sha ELSE <<>>

\* The inline upsert of the PR-only branch.
update_timestamp_only(states, r, t) == Upsert(states, r, CoalesceSha(states, r), t)

save_summary_Replace(rows, seq, r, summary, changes_count, t) ==
    LET row == [id |-> seq + 1, repo_name |-> r, summary |-> summary,
                changes_count |-> changes_count, timestamp |-> isoformat(t)]
    IN  IF rows = <<>> THEN <<row>> ELSE [rows EXCEPT ![Len(rows)] = row]

\* INSERT INTO summaries: the row gets the next AUTOINCREMENT id.
save_summary(rows, seq, r, summary, changes_count, t) ==
    Append(rows, [id |-> seq + 1, repo_name |-> r, summary |-> summary,
                  changes_count |-> changes_count, timestamp |-> isoformat(t)])

----------------------------------------------------------------------------
\* format_changes_for_ai: a header per non-empty section (the second one
\* after a blank line), at most 10 commit lines and 5 pull-request lines, in
\* the order received.  A line is kept as what it was formatted from.

Header(text) == [kind |-> text, ref |-> <<>>, at |-> 0]

CommitLine(c) == [kind |-> "commit", ref |-> c.sha, at |-> c.date]

PullLine(pr) == [kind |-> "pull", ref |-> <<pr.number>>, at |-> pr.updated_at.t]

format_changes_for_ai(commits, pulls) ==
    LET cs == Take(commits, MAX_COMMIT_LINES)
        ps == Take(pulls, MAX_PULL_LINES)
    IN  (IF commits # <<>>
         THEN <<Header("Recent Commits:")>> \o [i \in 1..Len(cs) |-> CommitLine(cs[i])]
         ELSE <<>>)
        \o
        (IF pulls # <<>>
         THEN <<Header("Recent Pull Requests:")>> \o [i \in 1..Len(ps) |-> PullLine(ps[i])]
         ELSE <<>>)

\* generate_summary: the completion's text, or, when the generation call
\* raises, the error text; it never raises itself.
generate_summary_NoTry(gen_fails) ==
    IF gen_fails
    THEN [exc |-> "APIError", text |-> ""]
    ELSE [exc |-> "none", text |-> "AI summary"]

generate_summary(gen_fails) ==
    IF gen_fails
    THEN [exc |-> "none", text |-> "Error generating summary: APIError"]
    ELSE [exc |-> "none", text |-> "AI summary"]

----------------------------------------------------------------------------
\* check_repo_for_changes, lines 204-209: the pull requests updated since
\* the last check.  The comprehension compares every fetched pull request
\* with the stored timestamp; an exception in a comparison leaves it.
FilterPulls(pulls, last_check) ==
    IF last_check = <<>>
    THEN [exc |-> "none", pulls |-> pulls]
    ELSE LET last_check_dt == fromisoformat(last_check[1])
             cmp(pr) == datetime_gt(fromisoformat(pr.updated_at), last_check_dt)
         IN  IF \E i \in 1..Len(pulls) : cmp(pulls[i]).exc # "none"
             THEN [exc |-> "TypeError", pulls |-> <<>>]
             ELSE [exc |-> "none", pulls |-> SelectSeq(pulls, LAMBDA pr : cmp(pr).value)]

total_changes(commits, pulls) == Len(commits) + Len(pulls)

NoNewChanges_Never(total) == FALSE

\* if total_changes == 0: return None
NoNewChanges(total) == total = 0

NewestSha_Last(commits) == commits[Len(commits)].sha

\* commits[0]["sha"]
NewestSha(commits) == commits[1].sha

\* The exceptions of the model; all but RequestException reach the second
\* except clause, as subclasses of Exception.
OtherExceptions == {"TypeError", "sqlite3.Error", "APIError"}

Caught_RequestOnly(exc) == exc = "RequestException"

\* The except clauses of check_repo_for_changes: RequestException, then
\* Exception; both return None.
Caught(exc) == exc = "RequestException" \/ exc \in OtherExceptions

StoreWrites_SummaryFirst(r, commits, summary, total, store_fail, tW, tS) ==
    LET saved == store_fail # "summary"
        stated == store_fail \notin {"state", "summary"}
    IN  [exc |-> IF store_fail \in {"state", "summary"} THEN "sqlite3.Error" ELSE "none",
         states |-> IF ~stated THEN repo_states
                    ELSE IF commits # <<>>
                         THEN update_repo_state(repo_states, r, NewestSha(commits), tW)
                         ELSE update_timestamp_only(repo_states, r, tW),
         rows |-> IF saved
                  THEN save_summary(summaries, sqlite_sequence, r, summary, total, tS)
                  ELSE summaries,
         seq |-> IF saved THEN sqlite_sequence + 1 ELSE sqlite_sequence]

\* The store writes of lines 221-235, in order: the repo_states upsert, then
\* save_summary.  Each commits on its own; store_fail names the operation
\* that raises ("none": neither).  tW and tS are the two clock readings.
StoreWrites(r, commits, summary, total, store_fail, tW, tS) ==
    LET states1 == IF store_fail = "state" THEN repo_states
                   ELSE IF commits # <<>>
                        THEN update_repo_state(repo_states, r, NewestSha(commits), tW)
                        ELSE update_timestamp_only(repo_states, r, tW)
        saved == store_fail \notin {"state", "summary"}
    IN  [exc |-> IF store_fail \in {"state", "summary"} THEN "sqlite3.Error" ELSE "none",
         states |-> states1,
         rows |-> IF saved
                  THEN save_summary(summaries, sqlite_sequence, r, summary, total, tS)
                  ELSE summaries,
         seq |-> IF saved THEN sqlite_sequence + 1 ELSE sqlite_sequence]

\* One call of check_repo_for_changes(r) from the current state.
\* fetch_fail: which request raises ("none", "commits", "pulls");
\* gen_fails: the generation call raises; store_fail: which store operation
\* raises ("none", "read", "state", "summary").
\* The result names the new tables, the clock, and what the call did.
Check(r, fetch_fail, gen_fails, store_fail) ==
    LET t0 == now + 1
        tW == now + 2
        tS == now + 3
        last_check == get_last_check_time(r)
        since_param == IF last_check # <<>> THEN last_check[1]
                       ELSE isoformat(t0 - LOOKBACK_DAYS)
        commits == get_repo_commits(r, since_param)
        fetched_pulls == get_repo_pulls(r)
        fetched == store_fail # "read" /\ fetch_fail = "none"
        filter == FilterPulls(fetched_pulls, last_check)
        pulls == filter.pulls
        total == total_changes(commits, pulls)
        changes_text == format_changes_for_ai(commits, pulls)
        gen == generate_summary(gen_fails)
        writes == StoreWrites(r, commits, gen.text, total, store_fail, tW, tS)
        \* how far the try block gets
        exc == IF store_fail = "read" THEN "sqlite3.Error"
               ELSE IF fetch_fail # "none" THEN "RequestException"
               ELSE IF filter.exc # "none" THEN filter.exc
               ELSE IF NoNewChanges(total) THEN "none"
               ELSE IF gen.exc # "none" THEN gen.exc
               ELSE writes.exc
        generated == fetched /\ filter.exc = "none" /\ ~NoNewChanges(total)
        wrote == generated /\ gen.exc = "none"
        returned == wrote /\ writes.exc = "none"
        log == [repo |-> r,
                last_check |-> last_check,
                fetched |-> fetched,
                commits |-> IF fetched THEN commits ELSE <<>>,
                fetched_pulls |-> IF fetched THEN fetched_pulls ELSE <<>>,
                filtered |-> fetched /\ filter.exc = "none",
                pulls |-> IF fetched THEN pulls ELSE <<>>,
                changes_text |-> IF generated THEN changes_text ELSE <<>>,
                gen_failed |-> generated /\ gen_fails,
                exc |-> exc,
                raised |-> exc # "none" /\ ~Caught(exc),
                result |-> IF returned THEN <<gen.text>> ELSE <<>>,
                states_before |-> repo_states,
                rows_before |-> summaries,
                t |-> now]
    IN  [states |-> IF wrote THEN writes.states ELSE repo_states,
         rows |-> IF wrote THEN writes.rows ELSE summaries,
         seq |-> IF wrote THEN writes.seq ELSE sqlite_sequence,
         clock |-> IF wrote THEN tS ELSE t0,
         log |-> log]

----------------------------------------------------------------------------
\* get_recent_summaries: ORDER BY timestamp DESC LIMIT ?, of all rows or of
\* the rows of one repository.  The timestamp column is the isoformat text,
\* whose order is the order of the clock readings.

RECURSIVE OrderByTimestampAsc(_)
OrderByTimestampAsc(S) ==
    IF S = {} THEN <<>>
    ELSE LET low == CHOOSE x \in S : \A y \in S : x.timestamp.t <= y.timestamp.t
         IN <<low>> \o OrderByTimestampAsc(S \ {low})

RECURSIVE OrderByTimestampDesc(_)
OrderByTimestampDesc(S) ==
    IF S = {} THEN <<>>
    ELSE LET top == CHOOSE x \in S : \A y \in S : y.timestamp.t <= x.timestamp.t
         IN <<top>> \o OrderByTimestampDesc(S \ {top})

\* The four selected columns.
Columns(row) == [repo_name |-> row.repo_name, summary |-> row.summary,
                 changes_count |-> row.changes_count, timestamp |-> row.timestamp]

\* repo_name: <<>> (None: no filter) or <<r>>.
get_recent_summaries(repo_name, limit) ==
    LET rows == {summaries[i] : i \in 1..Len(summaries)}
        sel == IF repo_name # <<>>
               THEN {x \in rows : x.repo_name = repo_name[1]}
               ELSE rows
        ordered == Take(OrderByTimestampDesc(sel), limit)
    IN  [i \in 1..Len(ordered) |-> Columns(ordered[i])]

----------------------------------------------------------------------------
\* State after construction: init_database on a fresh file, nothing upstream.

NoBatch == [pc |-> "idle", repo_list |-> <<>>, i |-> 1, checked |-> <<>>]

\* A batch that has returned is forgotten at the next event.
Running(b) == IF b.pc = "loop" THEN b ELSE NoBatch

NoListing == [called |-> FALSE, repo_name |-> <<>>, limit |-> 0, rows |-> <<>>]

Init ==
    /\ now = 0
    /\ nchecks = 0
    /\ up_commits = [r \in Repos |-> <<>>]
    /\ up_pulls = [r \in Repos |-> <<>>]
    /\ repo_states = <<>>
    /\ summaries = <<>>
    /\ sqlite_sequence = 0
    /\ hist = <<>>
    /\ batch = NoBatch
    /\ shown = NoListing
    /\ track = [r \in Repos |-> [first |-> <<>>, counted |-> {}]]

----------------------------------------------------------------------------
\* The hosting service: activity upstream.

RECURSIVE SumLen(_, _)
SumLen(f, S) ==
    IF S = {} THEN 0
    ELSE LET r == CHOOSE x \in S : TRUE IN Len(f[r]) + SumLen(f, S \ {r})

PushCommit(r) ==
    /\ SumLen(up_commits, Repos) + SumLen(up_pulls, Repos) < MaxUpstream
    /\ up_commits' = [up_commits EXCEPT ![r] =
           Append(@, [sha |-> ShaOf(r, Len(@) + 1), date |-> now])]
    /\ hist' = <<>>
    /\ shown' = NoListing
    /\ batch' = Running(batch)
    /\ UNCHANGED <<now, nchecks, up_pulls, repo_states, summaries, sqlite_sequence,
                   track>>

OpenPull(r) ==
    /\ SumLen(up_commits, Repos) + SumLen(up_pulls, Repos) < MaxUpstream
    /\ up_pulls' = [up_pulls EXCEPT ![r] =
           Append(@, [number |-> Len(@) + 1, updated_at |-> github_time(now)])]
    /\ hist' = <<>>
    /\ shown' = NoListing
    /\ batch' = Running(batch)
    /\ UNCHANGED <<now, nchecks, up_commits, repo_states, summaries, sqlite_sequence,
                   track>>

UpdatePull(r) ==
    /\ \E i \in 1..Len(up_pulls[r]) :
           /\ up_pulls[r][i].updated_at.t < now
           /\ up_pulls' = [up_pulls EXCEPT ![r][i].updated_at = github_time(now)]
    /\ hist' = <<>>
    /\ shown' = NoListing
    /\ batch' = Running(batch)
    /\ UNCHANGED <<now, nchecks, up_commits, repo_states, summaries, sqlite_sequence,
                   track>>

\* A look-back window passes with the bot not running.
Wait ==
    /\ now + LOOKBACK_DAYS <= MaxTime
    /\ now' = now + LOOKBACK_DAYS
    /\ shown' = NoListing
    /\ batch' = Running(batch)
    /\ UNCHANGED <<nchecks, up_commits, up_pulls, repo_states, summaries,
                   sqlite_sequence, hist, track>>

----------------------------------------------------------------------------
\* The bot's operations.

\* The since parameter of a call (line 198): the stored timestamp, or the
\* clock reading less the look-back window.
EffectiveWatermark(c) ==
    IF c.last_check # <<>> THEN c.last_check[1].t ELSE c.t + 1 - LOOKBACK_DAYS

\* track after a call: the since of the repository's first fetch, and the
\* commits of the fetched list when the call saved a SummaryRecord.
Tracked(out) ==
    LET c == out.log
        saved == Len(out.rows) > Len(summaries)
    IN  [track EXCEPT
           ![c.repo].first = IF c.fetched /\ @ = <<>> THEN <<EffectiveWatermark(c)>> ELSE @,
           ![c.repo].counted = IF saved
                               THEN @ \cup {c.commits[i].sha : i \in 1..Len(c.commits)}
                               ELSE @]

\* The effect of one check_repo_for_changes call on the bot's own state.
Write(out) ==
    /\ repo_states' = out.states
    /\ summaries' = out.rows
    /\ sqlite_sequence' = out.seq
    /\ now' = out.clock
    /\ nchecks' = nchecks + 1
    /\ shown' = NoListing
    /\ track' = Tracked(out)

\* A call during which nothing happens upstream.
Apply(out) ==
    /\ Write(out)
    /\ hist' = Last2(Append(hist, out.log))
    /\ UNCHANGED <<up_commits, up_pulls>>

FetchFaults == {"none", "commits", "pulls"}

StoreFaults == {"read", "state", "summary"}

\* cli.py check <repo>, with a reliable store.
CheckSingle(r) ==
    /\ batch.pc # "loop"
    /\ nchecks < MaxChecks
    /\ \E ff \in FetchFaults, gf \in BOOLEAN : Apply(Check(r, ff, gf, "none"))
    /\ batch' = NoBatch

\* The same, with a store operation raising.
CheckSingleStoreFault(r) ==
    /\ batch.pc # "loop"
    /\ nchecks < MaxChecks
    /\ \E sf \in StoreFaults : Apply(Check(r, "none", FALSE, sf))
    /\ batch' = NoBatch

\* cli.py check <repo>, every request, the generation call and every store
\* operation succeeding.
CheckSingleNoFault(r) ==
    /\ batch.pc # "loop"
    /\ nchecks < MaxChecks
    /\ Apply(Check(r, "none", FALSE, "none"))
    /\ batch' = NoBatch

\* The same, and a commit is pushed while the call runs: after the commits
\* request of line 201 has been answered and before update_repo_state reads
\* the clock (line 115).  The commit is dated by the reading the request
\* followed.  It is upstream activity since the call's fetch: hist starts over.
CheckSingleLateCommit(r) ==
    /\ batch.pc # "loop"
    /\ nchecks < MaxChecks
    /\ SumLen(up_commits, Repos) + SumLen(up_pulls, Repos) < MaxUpstream
    /\ Write(Check(r, "none", FALSE, "none"))
    /\ up_commits' = [up_commits EXCEPT ![r] =
           Append(@, [sha |-> ShaOf(r, Len(@) + 1), date |-> now + 1])]
    /\ hist' = <<>>
    /\ batch' = NoBatch
    /\ UNCHANGED up_pulls

\* The repository lists a batch may be given.
RepoLists == UNION {[1..n -> Repos] : n \in 0..MaxChecks}

\* check_all_repos(repo_list) is entered: the loop stands before its first
\* repository (an empty list ends the loop at once).
StartAll(repo_list) ==
    /\ batch.pc # "loop"
    /\ nchecks + Len(repo_list) <= MaxChecks
    /\ batch' = [pc |-> IF repo_list = <<>> THEN "done" ELSE "loop",
                 repo_list |-> repo_list, i |-> 1, checked |-> <<>>]
    /\ shown' = NoListing
    /\ UNCHANGED <<now, nchecks, up_commits, up_pulls, repo_states, summaries,
                   sqlite_sequence, hist, track>>

\* One iteration of the loop of check_all_repos: the call for repo_list[i].
\* An exception the call lets through leaves the loop and the batch.
AfterIteration(out) ==
    IF out.log.raised
    THEN [batch EXCEPT !.pc = "raised"]
    ELSE [batch EXCEPT !.pc = IF batch.i = Len(batch.repo_list) THEN "done" ELSE "loop",
                       !.i = batch.i + 1,
                       !.checked = Append(@, [repo |-> out.log.repo, exc |-> out.log.exc])]

StepAll ==
    /\ batch.pc = "loop"
    /\ nchecks < MaxChecks
    /\ \E ff \in FetchFaults, gf \in BOOLEAN :
           LET out == Check(batch.repo_list[batch.i], ff, gf, "none")
           IN  Apply(out) /\ batch' = AfterIteration(out)

StepAllStoreFault ==
    /\ batch.pc = "loop"
    /\ nchecks < MaxChecks
    /\ \E sf \in StoreFaults :
           LET out == Check(batch.repo_list[batch.i], "none", FALSE, sf)
           IN  Apply(out) /\ batch' = AfterIteration(out)

\* cli.py summaries [--repo R] -l N
ShowSummaries(repo_name, limit) ==
    /\ shown' = [called |-> TRUE, repo_name |-> repo_name, limit |-> limit,
                 rows |-> get_recent_summaries(repo_name, limit)]
    /\ UNCHANGED <<now, nchecks, up_commits, up_pulls, repo_states, summaries,
                   sqlite_sequence, hist, batch, track>>

----------------------------------------------------------------------------
\* Specifications.

Upstream ==
    \/ \E r \in Repos : PushCommit(r)
    \/ \E r \in Repos : OpenPull(r)
    \/ \E r \in Repos : UpdatePull(r)
    \/ Wait

\* Single checks with a reliable store: requests and the generation call
\* may fail.
Next ==
    \/ Upstream
    \/ \E r \in Repos : CheckSingle(r)

Spec == Init /\ [][Next]_vars

\* The same, and store operations may raise as well.
NextStore ==
    \/ Next
    \/ \E r \in Repos : CheckSingleStoreFault(r)

SpecStore == Init /\ [][NextStore]_vars

\* Single checks and batches, with every fault.
NextBatch ==
    \/ NextStore
    \/ \E l \in RepoLists : StartAll(l)
    \/ StepAll
    \/ StepAllStoreFault

SpecBatch == Init /\ [][NextBatch]_vars

\* Single checks and the listing command.
Filters == {<<>>} \cup {<<r>> : r \in Repos}

NextShow ==
    \/ Next
    \/ \E f \in Filters, n \in 0..MaxChecks : ShowSummaries(f, n)

SpecShow == Init /\ [][NextShow]_vars

\* Single checks in which nothing fails, commits arriving between them or
\* while one runs.
NextLate ==
    \/ Upstream
    \/ \E r \in Repos : CheckSingleNoFault(r)
    \/ \E r \in Repos : CheckSingleLateCommit(r)

SpecLate == Init /\ [][NextLate]_vars

----------------------------------------------------------------------------
\* Vocabulary of the properties.  Only check_repo_for_changes writes the
\* tables, so in every state they are as the last call left them.

Called == hist # <<>>

LastCall == hist[Len(hist)]

\* The pull requests of a fetched list updated strictly after the watermark
\* (all of them when none is stored), by the instants the texts denote.
UpdatedAfter(pulls, last_check) ==
    IF last_check = <<>> THEN pulls
    ELSE SelectSeq(pulls, LAMBDA pr : pr.updated_at.t > last_check[1].t)

\* The rows the last call appended to summaries.
Appended == SubSeq(summaries, Len(LastCall.rows_before) + 1, Len(summaries))

TablesUntouched ==
    /\ repo_states = LastCall.states_before
    /\ summaries = LastCall.rows_before

ShaBefore(c) == CoalesceSha(c.states_before, c.repo)

----------------------------------------------------------------------------
\* C1: a check that fetches no commit since the watermark and no pull
\* request updated after it returns None and leaves repo_states and
\* summaries exactly as they were.
C1_NoChangesNoWrites ==
    Called =>
        LET c == LastCall
        IN  (c.fetched /\ c.commits = <<>>
                /\ UpdatedAfter(c.fetched_pulls, c.last_check) = <<>>)
            => (c.result = <<>> /\ ~c.raised /\ TablesUntouched)

\* A later check of a repository with a stored row finds nothing new.
C1_Witness ==
    /\ Called
    /\ LastCall.fetched
    /\ LastCall.last_check # <<>>
    /\ LastCall.commits = <<>>
    /\ LastCall.exc = "none"
    /\ LastCall.result = <<>>
    /\ up_commits[LastCall.repo] # <<>>

\* C2: every check whose fetched change set is non-empty (a fetched commit,
\* or a pull request updated after the watermark), first or later, appends
\* exactly one SummaryRecord for the repository, with changes_count = the
\* fetched commits plus the pull requests that pass the watermark filter.
C2_OneSummaryPerNonEmptyCheck ==
    Called =>
        LET c == LastCall
            after == UpdatedAfter(c.fetched_pulls, c.last_check)
        IN  (c.fetched /\ (c.commits # <<>> \/ after # <<>>))
            => /\ Len(Appended) = 1
               /\ Appended[1].repo_name = c.repo
               /\ Appended[1].changes_count = Len(c.commits) + Len(after)

C4_PullsFilteredByWatermark ==
    Called =>
        LET c == LastCall
            after == UpdatedAfter(c.fetched_pulls, c.last_check)
        IN  c.fetched
            => /\ c.filtered
               /\ c.pulls = after
               /\ (after # <<>> =>
                     /\ Len(Appended) = 1
                     /\ Appended[1].changes_count = Len(c.commits) + Len(after)
                     /\ c.changes_text = format_changes_for_ai(c.commits, after))

----------------------------------------------------------------------------
\* C6: check_all_repos takes the repositories in list order, one call each;
\* a call that fails (a request, or any other exception) does not stop the
\* loop, and the batch never raises: when it has returned, every repository
\* of the list has been checked, in order.
C6_BatchSurvivesFailures ==
    /\ batch.pc # "raised"
    /\ Len(batch.checked) = batch.i - 1
    /\ Len(batch.checked) <= Len(batch.repo_list)
    /\ \A k \in 1..Len(batch.checked) : batch.checked[k].repo = batch.repo_list[k]
    /\ batch.pc = "loop" => batch.i <= Len(batch.repo_list)
    /\ batch.pc = "done" => Len(batch.checked) = Len(batch.repo_list)

\* A batch of two has returned although the check of its first repository
\* failed.
C6_Witness ==
    /\ batch.pc = "done"
    /\ Len(batch.repo_list) = 2
    /\ batch.checked[1].exc # "none"
    /\ batch.checked[2].repo = batch.repo_list[2]

\* C7: when changes were found and the generation call fails, nothing is
\* raised: the check upserts the repository's row with a new timestamp,
\* appends exactly one SummaryRecord whose text is the error message, and
\* returns that message.
ErrorText == generate_summary(TRUE).text

C7_GenerationFailurePersisted ==
    Called =>
        LET c == LastCall
        IN  c.gen_failed
            => /\ ~c.raised
               /\ c.exc = "none"
               /\ c.result = <<"Error generating summary: APIError">>
               /\ Len(Appended) = 1
               /\ Appended[1].repo_name = c.repo
               /\ Appended[1].summary = "Error generating summary: APIError"
               /\ Appended[1].changes_count = Len(c.commits) + Len(c.pulls)
               /\ c.repo \in DOMAIN repo_states
               /\ repo_states[c.repo].last_check_timestamp.t > c.t
               /\ (c.last_check # <<>> =>
                     repo_states[c.repo].last_check_timestamp.t > c.last_check[1].t)

\* The generation call failed in a later check of a repository.
C7_Witness ==
    /\ Called
    /\ LastCall.gen_failed
    /\ LastCall.last_check # <<>>
    /\ LastCall.result = <<ErrorText>>

\* C8: get_recent_summaries returns the SummaryRecords (of the given
\* repository, if one is given) newest appended first, cut to limit rows.
NewestAppendedFirst(repo_name, limit) ==
    LET sel == IF repo_name # <<>>
               THEN SelectSeq(summaries, LAMBDA x : x.repo_name = repo_name[1])
               ELSE summaries
        newest == Take(Reverse(sel), limit)
    IN  [i \in 1..Len(newest) |-> Columns(newest[i])]

C8_ListingNewestFirst ==
    shown.called =>
        /\ shown.rows = NewestAppendedFirst(shown.repo_name, shown.limit)
        /\ Len(shown.rows) <= shown.limit

\* Summaries were appended for one repository and then for another; the
\* listing with limit 1 and no filter returned the second one only.
C8_Witness ==
    /\ shown.called
    /\ shown.repo_name = <<>>
    /\ shown.limit = 1
    /\ Len(summaries) = 2
    /\ summaries[1].repo_name # summaries[2].repo_name
    /\ shown.rows = <<Columns(summaries[2])>>

\* C9: every SummaryRecord has changes_count >= 1 and ids grow in append
\* order; a record once written is never modified or deleted.
SummariesWellFormed ==
    /\ \A i \in 1..Len(summaries) : summaries[i].changes_count >= 1
    /\ \A i, j \in 1..Len(summaries) : i < j => summaries[i].id < summaries[j].id

SummariesKept ==
    /\ Len(summaries') >= Len(summaries)
    /\ \A i \in 1..Len(summaries) : summaries'[i] = summaries[i]

C9_SummaryLogAppendOnly == []SummariesWellFormed /\ [][SummariesKept]_vars

\* Two records are in the log, the second appended by a batch.
C9_Witness ==
    /\ Len(summaries) >= 2
    /\ batch.pc = "done"
    /\ Len(Appended) = 1

\* C10 as stated: a call changes the repository's RepoState if and only if
\* it appends a SummaryRecord, and every repo_states row has a
\* SummaryRecord of its repository.
StateChanged == repo_states # LastCall.states_before

C10_StateIffSummary ==
    /\ Called => (StateChanged <=> Appended # <<>>)
    /\ \A r \in DOMAIN repo_states :
           \E i \in 1..Len(summaries) : summaries[i].repo_name = r

\* C10 amended: a call appends a SummaryRecord only if it changes the
\* repository's RepoState; it changes RepoState without appending only when
\* save_summary raised after the upsert had committed; a call that finds no
\* changes or fails earlier changes neither table; and no call changes
\* another repository's row or an earlier SummaryRecord.
C10_SummaryImpliesState ==
    Called =>
        LET c == LastCall
        IN  /\ Appended # <<>> => (StateChanged /\ Len(Appended) = 1 /\ c.exc = "none")
            /\ (StateChanged /\ Appended = <<>>)
                  => (c.exc = "sqlite3.Error" /\ c.filtered /\ c.result = <<>>)
            /\ (c.exc \in {"RequestException", "TypeError"}
                  \/ (c.exc = "none" /\ c.result = <<>>)) => TablesUntouched
            /\ \A r \in DOMAIN c.states_before :
                   r \in DOMAIN repo_states /\ (r # c.repo => repo_states[r] = c.states_before[r])
            /\ SubSeq(summaries, 1, Len(c.rows_before)) = c.rows_before

\* save_summary raised after the upsert: the row is new, no record exists.
C10_Witness ==
    /\ Called
    /\ LastCall.exc = "sqlite3.Error"
    /\ StateChanged
    /\ Appended = <<>>

\* A commit the watermark has passed: dated before the stored
\* last_check_timestamp, so that no later commits request, whose since is
\* that timestamp or a later one, returns it.
Passed(r, commit) ==
    /\ r \in DOMAIN repo_states
    /\ commit.date < repo_states[r].last_check_timestamp.t

\* The commits upstream that the property speaks of: those dated after the
\* effective watermark of the repository's first check.
Owed(r) ==
    IF track[r].first = <<>> THEN {}
    ELSE {up_commits[r][i] : i \in {j \in 1..Len(up_commits[r]) :
                                     up_commits[r][j].date > track[r].first[1]}}

\* C11: no upstream commit is skipped by the watermark.  Of the commits of a
\* repository dated after the effective watermark of its first check, none
\* is passed by the stored watermark without a SummaryRecord having counted
\* it, the commits that arrive between a check's fetch and its write of
\* last_check_timestamp included; and once a check has run with nothing
\* upstream since its fetch, each of them is in a fetched list that a
\* SummaryRecord counted.
C11_NoCommitSkipped ==
    /\ \A r \in Repos : \A commit \in Owed(r) :
           Passed(r, commit) => commit.sha \in track[r].counted
    /\ Called => \A commit \in Owed(LastCall.repo) :
           commit.sha \in track[LastCall.repo].counted

====
